---- MODULE Spec2Model ----
(***************************************************************************)
(* A model of the changelog tool:                                          *)
(*   - parse_change_log and Release::new       (src/src/change_log.rs)     *)
(*   - serialize_changelog, serialize_release  (changelog_document ser.rs) *)
(*   - gen_release_notes, get_release_note, insert_release_note,           *)
(*     commit_should_be_ignored       (src/src/release_note_generation.rs) *)
(*                                                                         *)
(* Text is a sequence of one-character strings; byte offsets (pos, start,  *)
(* end, offset) are 0-based as in the source, so text[a..b] is             *)
(* SubSeq(text, a + 1, b).  Option<T> is a sequence of length 0 or 1.      *)
(* An IndexMap is a sequence of [k, v] records with pairwise distinct k.   *)
(***************************************************************************)
EXTENDS Integers, Sequences, FiniteSets, TLC

VARIABLES
    raw,         \* the argument of parse_change_log
    pc,          \* position in parse_change_log / Release::new
    header,      \* parse_change_log: header
    changelog,   \* parse_change_log: changelog (shadowed twice), text of Release::new
    offset,      \* parse_change_log: offset of the footer scan
    foot_links,  \* parse_change_log: foot_links
    releases,    \* parse_change_log: releases (IndexMap version -> Release)
    state,       \* Release::new: state
    version,     \* Release::new: version
    title,       \* Release::new: title
    notes,       \* Release::new: notes (IndexMap section title -> body)
    pos,         \* Release::new: pos
    out,         \* the String returned by serialize_changelog
    mode,        \* gen_release_notes: which of milestone / tags / neither is given
    options,     \* gen_release_notes: options
    unreleased,  \* gen_release_notes: *unreleased
    gpc,         \* position in gen_release_notes
    ret,         \* what gen_release_notes returned
    last_prs,    \* gen_release_notes: last_prs (tag range)
    provider,    \* the outcome of the call of the PR provider
    count,       \* the number of commits the loop has taken
    logged,      \* the errors logged by error!, in order
    last,        \* the last commit taken, its related_pr and get_release_note's result
    prev,        \* *unreleased before the last commit was taken
    entry,       \* *unreleased when gen_release_notes was called
    inserted,    \* the (section_title, release_note) inserted, in order
    ser_doc,     \* serialize_changelog: *changelog
    ser_option,  \* serialize_changelog: options.release_option
    ser_s,       \* serialize_changelog: the String s it returns
    spc          \* position in serialize_changelog

parseVars == <<raw, pc, header, changelog, offset, foot_links, releases,
               state, version, title, notes, pos, out>>

mergeVars == <<mode, options, unreleased, gpc, ret, last_prs, provider, count,
               logged, last, prev, entry, inserted>>

serVars == <<ser_doc, ser_option, ser_s, spc>>

vars == <<parseVars, mergeVars, serVars>>

----------------------------------------------------------------------------
(* Bounds of the model.                                                    *)

MaxLines == 4
MaxCommits == 2
MaxOrder == 2

----------------------------------------------------------------------------
(* Strings.                                                                *)

None == <<>>
Some(x) == <<x>>

Min(S) == CHOOSE x \in S : \A y \in S : x <= y
Max(S) == CHOOSE x \in S : \A y \in S : y <= x

\* SubSeq, cut at the end of s (a pattern tried past the end matches nothing)
Sub(s, a, b) == SubSeq(s, a, IF b > Len(s) THEN Len(s) ELSE b)

\* text[a..b] with 0-based byte offsets
Slice(s, a, b) == SubSeq(s, a + 1, b)

\* char::is_whitespace, on the characters of the model
WhiteSpace == {" ", "\n", "\t", "\r"}

\* str::trim
Trim(s) ==
    IF \A i \in 1..Len(s) : s[i] \in WhiteSpace THEN <<>>
    ELSE LET a == CHOOSE i \in 1..Len(s) :
                      s[i] \notin WhiteSpace /\ \A j \in 1..(i - 1) : s[j] \in WhiteSpace
             b == CHOOSE i \in 1..Len(s) :
                      s[i] \notin WhiteSpace /\ \A j \in (i + 1)..Len(s) : s[j] \in WhiteSpace
         IN  SubSeq(s, a, b)

\* str::find, as Option<usize>
Find(s, pat) ==
    LET At(i) == \A k \in 1..Len(pat) : s[i + k] = pat[k]
        range == 0..(Len(s) - Len(pat))
    IN  IF \E i \in range : At(i)
        THEN Some(CHOOSE i \in range : At(i) /\ \A j \in 0..(i - 1) : ~At(j))
        ELSE None

\* str::contains
Contains(s, pat) ==
    \E i \in 0..(Len(s) - Len(pat)) : \A k \in 1..Len(pat) : s[i + k] = pat[k]

\* memchr::memchr, as Option<usize>
Memchr(c, s) == Find(s, <<c>>)

\* str::split_inclusive('\n'): the first piece of a non-empty s
FirstLine(s) ==
    LET nl == Memchr("\n", s)
    IN  Slice(s, 0, IF nl = None THEN Len(s) ELSE nl[1] + 1)

\* str::split_inclusive('\n'): the last piece of a non-empty s
LastLine(s) ==
    LET n == Len(s)
    IN  IF \E i \in 1..(n - 1) : s[i] = "\n"
        THEN Slice(s, CHOOSE i \in 1..(n - 1) :
                         s[i] = "\n" /\ \A j \in (i + 1)..(n - 1) : s[j] # "\n", n)
        ELSE s

\* str::split_inclusive('\n'), collected
RECURSIVE SplitInclusive(_)
SplitInclusive(s) ==
    IF s = <<>> THEN <<>>
    ELSE <<FirstLine(s)>> \o SplitInclusive(Slice(s, Len(FirstLine(s)), Len(s)))

RECURSIVE Concat(_)
Concat(ss) == IF ss = <<>> THEN <<>> ELSE Head(ss) \o Concat(Tail(ss))

\* IndexMap::insert: a present key keeps its place and takes the new value
IndexInsert(m, k, v) ==
    IF \E i \in 1..Len(m) : m[i].k = k
    THEN [i \in 1..Len(m) |-> IF m[i].k = k THEN [k |-> k, v |-> v] ELSE m[i]]
    ELSE Append(m, [k |-> k, v |-> v])

\* IndexMap::shift_remove: the map without the key, the order of the rest kept
ShiftRemove(m, k) == SelectSeq(m, LAMBDA e : e.k # k)

\* IndexMap::get, as Option
Get(m, k) ==
    IF \E i \in 1..Len(m) : m[i].k = k
    THEN Some((CHOOSE e \in {m[i] : i \in 1..Len(m)} : e.k = k).v)
    ELSE None

Keys(m) == [i \in 1..Len(m) |-> m[i].k]
Values(m) == [i \in 1..Len(m) |-> m[i].v]

----------------------------------------------------------------------------
(* The patterns of change_log.rs.  A line holds "\n" only as its last      *)
(* character, and "." does not match "\n".                                 *)

UnreleasedMarker ==
    <<"#", "#", " ", "[", "U", "n", "r", "e", "l", "e", "a", "s", "e", "d", "]">>

NoNewline(s, a, b) == \A k \in a..b : s[k] # "\n"

\* FOOTER_REGEX  \[.*\]:   (unanchored)
FOOTER_REGEX(line) ==
    \E i \in 1..Len(line) : \E j \in (i + 1)..(Len(line) - 1) :
        /\ line[i] = "["
        /\ line[j] = "]"
        /\ line[j + 1] = ":"
        /\ NoNewline(line, i + 1, j - 1)

\* the places where  ## \[(.*)\]  matches: p is the 1-based index of "##",
\* q the index of the closing bracket
ReleaseTitleMatches(line) ==
    {pq \in {p \in 1..(Len(line) - 4) :
                Sub(line, p, p + 3) = <<"#", "#", " ", "[">>} \X (1..Len(line)) :
        /\ pq[1] + 4 <= pq[2]
        /\ line[pq[2]] = "]"
        /\ NoNewline(line, pq[1] + 4, pq[2] - 1)}

\* RELEASE_TITLE_REGEX  ## \[(.*)\](?: - (.*))?   (unanchored)
RELEASE_TITLE_REGEX(line) == ReleaseTitleMatches(line) # {}

\* RELEASE_TITLE_REGEX.captures(line): the leftmost match, (.*) greedy
ReleaseTitleCaptures(line) ==
    LET ms == ReleaseTitleMatches(line)
        p  == Min({pq[1] : pq \in ms})
        q  == Max({pq[2] : pq \in {m \in ms : m[1] = p}})
        nl == {k \in (q + 1)..Len(line) : line[k] = "\n"}
        e  == IF nl = {} THEN Len(line) ELSE Min(nl) - 1
    IN  [g1 |-> Some(SubSeq(line, p + 4, q - 1)),
         g2 |-> IF Sub(line, q + 1, q + 3) = <<" ", "-", " ">>
                THEN Some(SubSeq(line, q + 4, e))
                ELSE None]

\* RELEASE_SECTION_TITLE_REGEX  ### .*   (unanchored)
RELEASE_SECTION_TITLE_REGEX(line) == Contains(line, <<"#", "#", "#", " ">>)

----------------------------------------------------------------------------
(* release_note_generation.rs: the strings.                                *)

Added        == <<"A", "d", "d", "e", "d">>
Fixed        == <<"F", "i", "x", "e", "d">>
Unidentified == <<"U", "n", "i", "d", "e", "n", "t", "i", "f", "i", "e", "d">>

\* mutant of names: "notes" is missing
names_short == << <<"c", "h", "a", "n", "g", "e", "l", "o", "g">>,
                  <<"l", "o", "g">>,
                  <<"c", "h", "g", "l", "o", "g">> >>

\* line 261
names == << <<"c", "h", "a", "n", "g", "e", "l", "o", "g">>,
            <<"l", "o", "g">>,
            <<"c", "h", "g", "l", "o", "g">>,
            <<"n", "o", "t", "e", "s">> >>

\* lines 266-270
patterns(n) == << <<"(", "s", "k", "i", "p", " ">> \o n \o <<")">>,
                  <<"(", "i", "g", "n", "o", "r", "e", " ">> \o n \o <<")">>,
                  <<"!">> \o n >>

\* the patterns of each name, in the order of names
NamePatterns == [i \in 1..Len(names) |-> patterns(names[i])]

No == [yes |-> FALSE, reason |-> <<>>]
Yes(r) == [yes |-> TRUE, reason |-> r]

\* lines 265-281: the loops over names and patterns, first match first
RECURSIVE FirstPattern(_, _, _)
FirstPattern(raw_commit, i, j) ==
    IF i > Len(names) THEN No
    ELSE IF j > 3 THEN FirstPattern(raw_commit, i + 1, 1)
    ELSE LET pattern == NamePatterns[i][j]
         IN  IF Contains(raw_commit.message, pattern) \/ Contains(raw_commit.desc, pattern)
             THEN Yes(pattern)
             ELSE FirstPattern(raw_commit, i, j + 1)

\* commit_should_be_ignored
commit_should_be_ignored(raw_commit, changelog_path) ==
    IF \E path \in raw_commit.list_files : path = changelog_path
    THEN Yes(<<"f", "i", "l", "e">>)
    ELSE FirstPattern(raw_commit, 1, 1)

----------------------------------------------------------------------------
(* The collaborators of get_release_note, which the source only calls:     *)
(* the classifier parse_commit, and the section mapping map_section and    *)
(* try_find_section.  A raw commit carries what the classifier and the     *)
(* pattern search give for it; the mapping is the one of the                *)
(* specification's example (feat -> Added) and its like for fix.           *)

parse_commit(raw_commit) == raw_commit.parsed

try_find_section(raw_commit) == raw_commit.found

map_section(section) ==
    CASE section = "feat" -> Some(Added)
      [] section = "fix" -> Some(Fixed)
      [] OTHER -> None

----------------------------------------------------------------------------
(* get_release_note and insert_release_note.                               *)

NoNote == [scope |-> None, message |-> <<>>, context |-> <<>>]
NoCommit == [section |-> <<>>, scope |-> None, message |-> <<>>]

OkNone == [kind |-> "none", err |-> "", section_title |-> <<>>, release_note |-> NoNote]
Err(e) == [kind |-> "err", err |-> e, section_title |-> <<>>, release_note |-> NoNote]
OkSome(t, n) == [kind |-> "some", err |-> "", section_title |-> t, release_note |-> n]

Bail(e) == [err |-> e, commit |-> NoCommit]
Classified(c) == [err |-> "", commit |-> c]

\* mutant of FindOrUnidentified: exclude_unidentified is not read
FindOrUnidentified_keep(raw_commit, opts) ==
    LET section == try_find_section(raw_commit)
    IN  IF section # None THEN [err |-> "", section |-> section[1]]
        ELSE [err |-> "", section |-> Unidentified]

\* lines 168-177 and 189-198: the full-text search, then the unidentified rule
FindOrUnidentified(raw_commit, opts) ==
    LET section == try_find_section(raw_commit)
    IN  IF section # None THEN [err |-> "", section |-> section[1]]
        ELSE IF opts.exclude_unidentified
        THEN [err |-> "UnidentifiedCommit", section |-> <<>>]
        ELSE [err |-> "", section |-> Unidentified]

\* lines 159-206: the commit after classification, or the error bailed with
Classify(raw_commit, opts) ==
    LET parsed == parse_commit(raw_commit)
    IN  IF parsed # None
        THEN LET commit == parsed[1]
                 mapped == map_section(commit.section)
             IN  IF mapped # None
                 THEN Classified([commit EXCEPT !.section = mapped[1]])
                 ELSE IF opts.parsing = "Strict"
                 THEN Bail("UnmappedSection")
                 ELSE LET f == FindOrUnidentified(raw_commit, opts)
                      IN  IF f.err # "" THEN Bail(f.err)
                          ELSE Classified([commit EXCEPT !.section = f.section])
        ELSE IF opts.parsing = "Strict"
        THEN Bail("InvalidCommitSyntax")
        ELSE LET f == FindOrUnidentified(raw_commit, opts)
             IN  IF f.err # "" THEN Bail(f.err)
                 ELSE Classified([section |-> f.section,
                                  scope |-> None,
                                  message |-> raw_commit.message])

\* lines 209-213
PrLink(related_pr) ==
    <<" ", "i", "n", " ", "[">> \o related_pr.pr_id \o <<"]", "(">>
    \o related_pr.url \o <<")">>

\* lines 215-220
Thanks(related_pr) ==
    <<" ", "b", "y", " ", "[", "@">> \o related_pr.author \o <<"]", "(">>
    \o related_pr.author_link \o <<")">>

\* mutant of Enrich: the credit comes before the PR reference
Enrich_thanks_first(commit, related_pr, opts) ==
    IF related_pr # None
    THEN Classified([commit EXCEPT !.message =
             @ \o (IF ~opts.omit_thanks THEN Thanks(related_pr[1]) ELSE <<>>)
               \o (IF ~opts.omit_pr_link THEN PrLink(related_pr[1]) ELSE <<>>)])
    ELSE IF opts.exclude_not_pr
    THEN Bail("NoUpstreamPr")
    ELSE Classified(commit)

\* lines 208-223: the commit after enrichment, or the error bailed with
Enrich(commit, related_pr, opts) ==
    IF related_pr # None
    THEN Classified([commit EXCEPT !.message =
             @ \o (IF ~opts.omit_pr_link THEN PrLink(related_pr[1]) ELSE <<>>)
               \o (IF ~opts.omit_thanks THEN Thanks(related_pr[1]) ELSE <<>>)])
    ELSE IF opts.exclude_not_pr
    THEN Bail("NoUpstreamPr")
    ELSE Classified(commit)

\* get_release_note
get_release_note(raw_commit, related_pr, opts) ==
    IF commit_should_be_ignored(raw_commit, opts.changelog_path).yes
    THEN OkNone
    ELSE LET c == Classify(raw_commit, opts)
         IN  IF c.err # "" THEN Err(c.err)
             ELSE LET e == Enrich(c.commit, related_pr, opts)
                  IN  IF e.err # "" THEN Err(e.err)
                      ELSE OkSome(e.commit.section,
                                  [scope |-> e.commit.scope,
                                   message |-> e.commit.message,
                                   context |-> <<>>])

\* mutant of insert_release_note: a new section is put first
insert_release_note_front(rel, section_title, release_note) ==
    LET sections ==
            IF Get(rel.note_sections, section_title) # None
            THEN rel.note_sections
            ELSE <<[k |-> section_title,
                    v |-> [title |-> section_title, notes |-> <<>>]]>>
                 \o rel.note_sections
    IN  [rel EXCEPT !.note_sections =
            [i \in 1..Len(sections) |->
                IF sections[i].k = section_title
                THEN [sections[i] EXCEPT !.v.notes = Append(@, release_note)]
                ELSE sections[i]]]

\* mutant of insert_release_note: the release is built anew around its
\* sections
insert_release_note_rebuild(rel, section_title, release_note) ==
    LET sections ==
            IF Get(rel.note_sections, section_title) # None
            THEN rel.note_sections
            ELSE Append(rel.note_sections,
                        [k |-> section_title,
                         v |-> [title |-> section_title, notes |-> <<>>]])
    IN  [title |-> rel.title,
         header |-> None,
         note_sections |->
            [i \in 1..Len(sections) |->
                IF sections[i].k = section_title
                THEN [sections[i] EXCEPT !.v.notes = Append(@, release_note)]
                ELSE sections[i]],
         footer |-> None]

\* mutant of insert_release_note: the note becomes the first of its section
insert_release_note_first(rel, section_title, release_note) ==
    LET sections ==
            IF Get(rel.note_sections, section_title) # None
            THEN rel.note_sections
            ELSE Append(rel.note_sections,
                        [k |-> section_title,
                         v |-> [title |-> section_title, notes |-> <<>>]])
    IN  [rel EXCEPT !.note_sections =
            [i \in 1..Len(sections) |->
                IF sections[i].k = section_title
                THEN [sections[i] EXCEPT !.v.notes = <<release_note>> \o @]
                ELSE sections[i]]]

\* insert_release_note: *unreleased afterwards
insert_release_note(rel, section_title, release_note) ==
    LET sections ==
            IF Get(rel.note_sections, section_title) # None
            THEN rel.note_sections
            ELSE Append(rel.note_sections,
                        [k |-> section_title,
                         v |-> [title |-> section_title, notes |-> <<>>]])
    IN  [rel EXCEPT !.note_sections =
            [i \in 1..Len(sections) |->
                IF sections[i].k = section_title
                THEN [sections[i] EXCEPT !.v.notes = Append(@, release_note)]
                ELSE sections[i]]]

----------------------------------------------------------------------------
(* The commits, the pull requests and the options gen_release_notes is     *)
(* run with.                                                               *)

ChangelogPath == "CHANGELOG.md"

RawCommit(m, d, files, p, f) ==
    [message |-> m, desc |-> d, sha |-> "sha", list_files |-> files,
     parsed |-> p, found |-> f]

Parsed(section, scope, m) == Some([section |-> section, scope |-> scope, message |-> m])

MsgBangLog == <<"f", "i", "x", ":", " ", "s", "o", "m", "e", "t", "h", "i", "n", "g",
                " ", "!", "l", "o", "g">>
MsgLog     == <<"f", "i", "x", ":", " ", "s", "o", "m", "e", "t", "h", "i", "n", "g",
                " ", "l", "o", "g">>
MsgFeat    == <<"f", "e", "a", "t", "(", "a", "p", "i", ")", ":", " ",
                "a", "d", "d", " ", "r", "e", "t", "r", "y">>
MsgDocs    == <<"d", "o", "c", "s", ":", " ", "y">>
MsgWip     == <<"w", "i", "p", ":", " ", "(", "s", "k", "i", "p", " ", "l", "o", "g">>
MsgAddY    == <<"a", "d", "d", " ", "y">>
MsgZzz     == <<"z", "z", "z">>

\* one commit for each way of classification
PlainCommits ==
    { RawCommit(MsgLog, <<>>, {}, Parsed("fix", None, SubSeq(MsgLog, 6, Len(MsgLog))), None),
      RawCommit(MsgFeat, <<>>, {"src/main.rs"},
                Parsed("feat", Some(<<"a", "p", "i">>), SubSeq(MsgFeat, 12, Len(MsgFeat))),
                Some(Added)),
      RawCommit(MsgDocs, <<>>, {}, Parsed("docs", None, <<"y">>), Some(Fixed)),
      RawCommit(MsgWip, <<>>, {}, Parsed("wip", None, SubSeq(MsgWip, 6, Len(MsgWip))), None),
      RawCommit(MsgAddY, <<>>, {}, None, Some(Added)),
      RawCommit(MsgZzz, <<>>, {}, None, None) }

\* the twelve markers: (skip n), (ignore n), !n
SkipNames == { <<"c", "h", "a", "n", "g", "e", "l", "o", "g">>, <<"l", "o", "g">>,
               <<"c", "h", "g", "l", "o", "g">>, <<"n", "o", "t", "e", "s">> }
SkipMarkers ==
    UNION {{ <<"(", "s", "k", "i", "p", " ">> \o n \o <<")">>,
             <<"(", "i", "g", "n", "o", "r", "e", " ">> \o n \o <<")">>,
             <<"!">> \o n } : n \in SkipNames}

\* the commits that carry one of the twelve markers, in the message
MarkerCommits ==
    { RawCommit(<<"x", " ">> \o m, <<>>, {}, None, None) : m \in SkipMarkers }

\* a marker in the message of a well-formed commit, a marker in the
\* description, and the changelog among the changed files
OtherSkipped ==
    { RawCommit(MsgBangLog, <<>>, {},
                Parsed("fix", None, SubSeq(MsgBangLog, 6, Len(MsgBangLog))), None),
      RawCommit(MsgDocs, <<"(", "s", "k", "i", "p", " ", "n", "o", "t", "e", "s", ")">>, {},
                Parsed("docs", None, <<"y">>), None),
      RawCommit(MsgFeat, <<>>, {"src/main.rs", ChangelogPath},
                Parsed("feat", Some(<<"a", "p", "i">>), SubSeq(MsgFeat, 12, Len(MsgFeat))),
                Some(Added)) }

\* the commits of a batch
Commits == PlainCommits \cup OtherSkipped

\* the commits get_release_note is tried on
AllCommits == Commits \cup MarkerCommits

\* the pull request the provider relates to a commit
Pr == [pr_id |-> <<"#", "7">>, url |-> <<"u">>,
       author |-> <<"b", "o", "b">>, author_link |-> <<"l">>]

Options ==
    [changelog_path : {ChangelogPath},
     parsing : {"Strict", "Smart"},
     exclude_unidentified : BOOLEAN,
     exclude_not_pr : BOOLEAN,
     omit_pr_link : BOOLEAN,
     omit_thanks : BOOLEAN]

OldNote == [scope |-> None, message |-> <<"o", "l", "d">>, context |-> <<>>]

ReleaseWith(sections) ==
    [title |-> [version |-> SubSeq(UnreleasedMarker, 5, 14), title |-> None],
     header |-> None,
     note_sections |-> sections,
     footer |-> None]

\* the Unreleased release before the run: empty, or with a header, two
\* sections and a footer
Unreleaseds ==
    { ReleaseWith(<<>>),
      [ReleaseWith(<< [k |-> Fixed, v |-> [title |-> Fixed, notes |-> <<OldNote>>]],
                      [k |-> Added, v |-> [title |-> Added, notes |-> <<OldNote>>]] >>)
          EXCEPT !.header = Some(<<"h">>), !.footer = Some(<<"f">>)] }

----------------------------------------------------------------------------
(* The input texts: up to MaxLines lines, each ended by "\n".              *)

LineUnreleased == UnreleasedMarker
LineRelease    == <<"#", "#", " ", "[", "1", "]", " ", "-", " ", "d">>
LineSectionA   == <<"#", "#", "#", " ", "A">>
LineSectionB   == <<"#", "#", "#", " ", "B">>
LineSectionBr  == <<"#", "#", "#", " ", "[", "A", "]">>
LineNote       == <<"-", " ", "n">>
LineFootR      == <<"[", "r", "]", ":", " ", "u">>
LineFootS      == <<"[", "s", "]", ":", " ", "v">>
LineUnrelColon == UnreleasedMarker \o <<":", " ", "x">>

LinePool == {LineUnreleased, LineRelease, LineSectionA, LineSectionB,
             LineSectionBr, LineNote, LineFootR, LineFootS, LineUnrelColon}

JoinLines(ls) == Concat([i \in 1..Len(ls) |-> ls[i] \o <<"\n">>])

Texts == UNION {{JoinLines(ls) : ls \in [1..n -> LinePool]} : n \in 1..MaxLines}

----------------------------------------------------------------------------
(* The document model of the changelog_document crate, as ser.rs reads it: *)
(*   ChangeLog      [header: Option, releases: IndexMap, footer_links]     *)
(*   Release        [title: [version, title: Option], header: Option,      *)
(*                   note_sections: IndexMap, footer: Option]              *)
(*   ReleaseSection [title, notes]                                         *)
(*   ReleaseSectionNote [scope: Option, message, context]                  *)
(* and its serializer.                                                     *)

\* serialize_release_section_note: what it pushes to s
serialize_release_section_note(note) ==
    LET note_title ==
            IF note.scope # None
            THEN <<"-", " ">> \o note.scope[1] \o <<":", " ">> \o note.message \o <<"\n">>
            ELSE <<"-", " ">> \o note.message \o <<"\n">>
    IN  note_title
        \o Concat([i \in 1..Len(note.context) |->
                      <<" ", " ">> \o note.context[i] \o <<"\n">>])

\* mutant of SortSections: the section is cloned, not removed
RECURSIVE SortSections_keep(_, _, _)
SortSections_keep(sorted, section_cloned, section_order) ==
    IF section_order = <<>>
    THEN sorted \o Values(section_cloned)
    ELSE LET section == Get(section_cloned, Head(section_order))
         IN  SortSections_keep(
                 IF section # None THEN Append(sorted, section[1]) ELSE sorted,
                 section_cloned,
                 Tail(section_order))

\* ser.rs lines 76-89: note_section_sorted
RECURSIVE SortSections(_, _, _)
SortSections(sorted, section_cloned, section_order) ==
    IF section_order = <<>>
    THEN sorted \o Values(section_cloned)
    ELSE LET section == Get(section_cloned, Head(section_order))
         IN  SortSections(
                 IF section # None THEN Append(sorted, section[1]) ELSE sorted,
                 ShiftRemove(section_cloned, Head(section_order)),
                 Tail(section_order))

note_section_sorted(release, opts) ==
    SortSections(<<>>, release.note_sections, opts.section_order)

\* ser.rs lines 91-97, for one section
SerializeSection(section) ==
    <<"\n", "#", "#", "#", " ">> \o section.title \o <<"\n", "\n">>
    \o Concat([i \in 1..Len(section.notes) |->
                  serialize_release_section_note(section.notes[i])])

\* mutant of serialize_release: the heading is written only when
\* serialise_title is set
serialize_release_titled(release, opts) ==
    LET rtitle ==
            IF ~opts.serialise_title THEN <<>>
            ELSE IF release.title.title # None
            THEN <<"\n", "#", "#", " ", "[">> \o release.title.version
                 \o <<"]", " ", "-", " ">> \o release.title.title[1] \o <<"\n">>
            ELSE <<"\n", "#", "#", " ", "[">> \o release.title.version
                 \o <<"]", "\n">>
        sorted == note_section_sorted(release, opts)
    IN  rtitle
        \o (IF release.header # None
            THEN <<"\n">> \o release.header[1] \o <<"\n">> ELSE <<>>)
        \o Concat([i \in 1..Len(sorted) |-> SerializeSection(sorted[i])])
        \o (IF release.footer # None
            THEN <<"\n">> \o release.footer[1] \o <<"\n">> ELSE <<>>)

\* serialize_release: what it pushes to s (opts.serialise_title is not read)
serialize_release(release, opts) ==
    LET rtitle ==
            IF release.title.title # None
            THEN <<"\n", "#", "#", " ", "[">> \o release.title.version
                 \o <<"]", " ", "-", " ">> \o release.title.title[1] \o <<"\n">>
            ELSE <<"\n", "#", "#", " ", "[">> \o release.title.version
                 \o <<"]", "\n">>
        sorted == note_section_sorted(release, opts)
    IN  rtitle
        \o (IF release.header # None
            THEN <<"\n">> \o release.header[1] \o <<"\n">> ELSE <<>>)
        \o Concat([i \in 1..Len(sorted) |-> SerializeSection(sorted[i])])
        \o (IF release.footer # None
            THEN <<"\n">> \o release.footer[1] \o <<"\n">> ELSE <<>>)

\* serialize_changelog
serialize_changelog(doc, opts) ==
    (IF doc.header # None THEN doc.header[1] \o <<"\n">> ELSE <<>>)
    \o Concat([i \in 1..Len(doc.releases) |->
                  serialize_release(doc.releases[i].v, opts.release_option)])
    \o (IF doc.footer_links # <<>> THEN <<"\n">> ELSE <<>>)
    \o Concat([i \in 1..Len(doc.footer_links) |->
                  <<"[">> \o doc.footer_links[i].text \o <<"]", ":", " ">>
                  \o doc.footer_links[i].link \o <<"\n">>])

\* ChangeLogSerOption::default()
DefaultSerOption ==
    [release_option |-> [section_order |-> <<>>, serialise_title |-> TRUE]]

----------------------------------------------------------------------------
(* From the parser's Changelog to the serializer's ChangeLog.  The source  *)
(* holds no such conversion (the two types belong to different crates);    *)
(* it is written from the data model of the specification: a section body  *)
(* is a list of notes, one per "- " line, the other lines of the body      *)
(* being the context of the note above them; the parser captures no        *)
(* release header or footer.                                               *)

RECURSIVE NotesOfLines(_, _)
NotesOfLines(ls, acc) ==
    IF ls = <<>> THEN acc
    ELSE LET l == Trim(Head(ls))
         IN  IF Sub(l, 1, 2) = <<"-", " ">>
             THEN NotesOfLines(Tail(ls),
                      Append(acc, [scope |-> None,
                                   message |-> Trim(SubSeq(l, 3, Len(l))),
                                   context |-> <<>>]))
             ELSE IF l = <<>> \/ acc = <<>>
             THEN NotesOfLines(Tail(ls), acc)
             ELSE NotesOfLines(Tail(ls),
                      [acc EXCEPT ![Len(acc)].context = Append(@, l)])

NotesOfBody(body) == NotesOfLines(SplitInclusive(body), <<>>)

ReleaseOfParsed(r) ==
    [title |-> [version |-> r.version, title |-> r.title],
     header |-> None,
     note_sections |->
         [i \in 1..Len(r.notes) |->
             [k |-> r.notes[i].k,
              v |-> [title |-> r.notes[i].k, notes |-> NotesOfBody(r.notes[i].v)]]],
     footer |-> None]

ChangeLogOfParsed(h, rs, fl) ==
    [header |-> IF h = <<>> THEN None ELSE Some(h),
     releases |-> [i \in 1..Len(rs) |-> [k |-> rs[i].k, v |-> ReleaseOfParsed(rs[i].v)]],
     footer_links |-> fl]

----------------------------------------------------------------------------
(* parse_change_log and Release::new.                                      *)

StateInit == [tag |-> "Init", title |-> <<>>, start |-> 0, end |-> 0]
StateTitle == [tag |-> "Title", title |-> <<>>, start |-> 0, end |-> 0]
\* mutant of StateSection: the span starts at the start of the text
StateSection_from_zero(t, s, e) == [tag |-> "Section", title |-> t, start |-> 0, end |-> e]

StateSection(t, s, e) == [tag |-> "Section", title |-> t, start |-> s, end |-> e]

\* lines 18-31: the FootLink of a line FOOTER_REGEX matches
FootLink(line) ==
    LET start == Memchr("[", line)[1]
        end   == Memchr("]", line)[1]
        colon == Memchr(":", line)[1]
    IN  [text |-> Trim(Slice(line, start + 1, end)),
         link |-> Trim(Slice(line, colon + 1, Len(line)))]

\* the slice line[start + 1..end] of line 22 panics when start + 1 > end
FootLinkPanics(line) == Memchr("[", line)[1] + 1 > Memchr("]", line)[1]

\* serialize_changelog is not running
SerIdle ==
    /\ ser_doc = [header |-> None, releases |-> <<>>, footer_links |-> <<>>]
    /\ ser_option = DefaultSerOption.release_option
    /\ ser_s = <<>>
    /\ spc = "idle"

InitParse ==
    /\ SerIdle
    /\ raw \in Texts
    /\ pc = "start"
    /\ header = <<>>
    /\ changelog = <<>>
    /\ offset = 0
    /\ foot_links = <<>>
    /\ releases = <<>>
    /\ state = StateInit
    /\ version = None
    /\ title = None
    /\ notes = <<>>
    /\ pos = 0
    /\ out = <<>>
    /\ mode = "idle"
    /\ options = CHOOSE o \in Options : TRUE
    /\ unreleased = ReleaseWith(<<>>)
    /\ gpc = "idle"
    /\ ret = "none"
    /\ last_prs = "unset"
    /\ provider = "unused"
    /\ count = 0
    /\ logged = <<>>
    /\ last = None
    /\ prev = unreleased
    /\ entry = unreleased
    /\ inserted = <<>>

\* lines 7-14
ParseFind ==
    /\ UNCHANGED <<mergeVars, serVars>>
    /\ pc = "start"
    /\ LET found == Find(raw, UnreleasedMarker)
       IN  IF found = None
           THEN /\ pc' = "panic_no_unreleased"
                /\ UNCHANGED <<header, changelog>>
           ELSE /\ header' = Trim(Slice(raw, 0, found[1]))
                /\ changelog' = Slice(raw, found[1], Len(raw))
                /\ pc' = "footer"
    /\ UNCHANGED <<raw, offset, foot_links, releases, state, version, title,
                   notes, pos, out>>

\* mutant of FooterNextLine: the scan runs forward (.rev() forgotten)
FooterNextLine_forward ==
    LET rest == Slice(changelog, offset, Len(changelog))
    IN  IF rest = <<>> THEN None ELSE Some(FirstLine(rest))

\* the line the reverse iterator of line 16 yields next, as Option
FooterNextLine ==
    LET rest == Slice(changelog, 0, Len(changelog) - offset)
    IN  IF rest = <<>> THEN None ELSE Some(LastLine(rest))

\* lines 16-37, one iteration that takes the line as a footer link
FooterTake ==
    /\ UNCHANGED <<mergeVars, serVars>>
    /\ pc = "footer"
    /\ FooterNextLine # None
    /\ LET line == FooterNextLine[1]
       IN  /\ FOOTER_REGEX(line)
           /\ IF FootLinkPanics(line)
              THEN /\ pc' = "panic_slice"
                   /\ UNCHANGED <<foot_links, offset>>
              ELSE /\ foot_links' = Append(foot_links, FootLink(line))
                   /\ offset' = offset + Len(line)
                   /\ pc' = pc
    /\ UNCHANGED <<raw, header, changelog, releases, state, version, title,
                   notes, pos, out>>

\* lines 34-39: the break (or the end of the lines), then line 39
FooterBreak ==
    /\ UNCHANGED <<mergeVars, serVars>>
    /\ pc = "footer"
    /\ FooterNextLine # None => ~FOOTER_REGEX(FooterNextLine[1])
    /\ changelog' = Trim(Slice(changelog, 0, Len(changelog) - offset))
    /\ pc' = "new_loop"
    /\ UNCHANGED <<raw, header, offset, foot_links, releases, state, version,
                   title, notes, pos, out>>

\* the line the iterator of line 124 yields next, as Option
NextLine ==
    LET rest == Slice(changelog, pos, Len(changelog))
    IN  IF rest = <<>> THEN None ELSE Some(FirstLine(rest))

\* lines 137, 146, 175
CloseSection(ns, st) ==
    IndexInsert(ns, st.title, Trim(Slice(changelog, st.start, st.end)))

\* mutant of ReleaseLine: the release-title line that ends a release is
\* consumed (pos is advanced before the break)
ReleaseLine_consume ==
    /\ UNCHANGED <<mergeVars, serVars>>
    /\ pc = "new_loop"
    /\ NextLine # None
    /\ LET line == NextLine[1]
       IN  IF RELEASE_TITLE_REGEX(line)
           THEN CASE state.tag = "Init" ->
                       /\ version' = ReleaseTitleCaptures(line).g1
                       /\ title' = ReleaseTitleCaptures(line).g2
                       /\ state' = StateTitle
                       /\ pos' = pos + Len(line)
                       /\ UNCHANGED <<notes, pc>>
                  [] state.tag = "Title" ->
                       /\ pc' = "new_end"
                       /\ pos' = pos + Len(line)
                       /\ UNCHANGED <<version, title, state, notes>>
                  [] state.tag = "Section" ->
                       /\ notes' = CloseSection(notes, state)
                       /\ pc' = "new_end"
                       /\ pos' = pos + Len(line)
                       /\ UNCHANGED <<version, title, state>>
           ELSE IF RELEASE_SECTION_TITLE_REGEX(line)
           THEN IF state.tag = "Init"
                THEN /\ pc' = "panic_section"
                     /\ UNCHANGED <<version, title, state, pos, notes>>
                ELSE /\ notes' = IF state.tag = "Section"
                                 THEN CloseSection(notes, state)
                                 ELSE notes
                     /\ state' = StateSection(
                                    Trim(Slice(line, 4, Len(line))),
                                    pos + Len(line), pos + Len(line))
                     /\ pos' = pos + Len(line)
                     /\ UNCHANGED <<version, title, pc>>
           ELSE IF state.tag = "Section"
           THEN /\ state' = [state EXCEPT !.end = @ + Len(line)]
                /\ pos' = pos + Len(line)
                /\ UNCHANGED <<version, title, notes, pc>>
           ELSE /\ pos' = pos + Len(line)
                /\ UNCHANGED <<version, title, notes, state, pc>>
    /\ UNCHANGED <<raw, header, changelog, offset, foot_links, releases, out>>

\* lines 124-169, one iteration of the loop of Release::new
ReleaseLine ==
    /\ UNCHANGED <<mergeVars, serVars>>
    /\ pc = "new_loop"
    /\ NextLine # None
    /\ LET line == NextLine[1]
       IN  IF RELEASE_TITLE_REGEX(line)
           THEN CASE state.tag = "Init" ->
                       /\ version' = ReleaseTitleCaptures(line).g1
                       /\ title' = ReleaseTitleCaptures(line).g2
                       /\ state' = StateTitle
                       /\ pos' = pos + Len(line)
                       /\ UNCHANGED <<notes, pc>>
                  [] state.tag = "Title" ->
                       /\ pc' = "new_end"
                       /\ UNCHANGED <<version, title, state, pos, notes>>
                  [] state.tag = "Section" ->
                       /\ notes' = CloseSection(notes, state)
                       /\ pc' = "new_end"
                       /\ UNCHANGED <<version, title, state, pos>>
           ELSE IF RELEASE_SECTION_TITLE_REGEX(line)
           THEN IF state.tag = "Init"
                THEN /\ pc' = "panic_section"
                     /\ UNCHANGED <<version, title, state, pos, notes>>
                ELSE /\ notes' = IF state.tag = "Section"
                                 THEN CloseSection(notes, state)
                                 ELSE notes
                     /\ state' = StateSection(
                                    Trim(Slice(line, 4, Len(line))),
                                    pos + Len(line), pos + Len(line))
                     /\ pos' = pos + Len(line)
                     /\ UNCHANGED <<version, title, pc>>
           ELSE IF state.tag = "Section"
           THEN /\ state' = [state EXCEPT !.end = @ + Len(line)]
                /\ pos' = pos + Len(line)
                /\ UNCHANGED <<version, title, notes, pc>>
           ELSE /\ pos' = pos + Len(line)
                /\ UNCHANGED <<version, title, notes, state, pc>>
    /\ UNCHANGED <<raw, header, changelog, offset, foot_links, releases, out>>

\* line 124: the iterator is exhausted
ReleaseLinesEnd ==
    /\ UNCHANGED <<mergeVars, serVars>>
    /\ pc = "new_loop"
    /\ NextLine = None
    /\ pc' = "new_end"
    /\ UNCHANGED <<raw, header, changelog, offset, foot_links, releases,
                   state, version, title, notes, pos, out>>

\* mutant of ReleaseSome: the remaining text is not advanced by the offset
ReleaseSome_keep ==
    /\ UNCHANGED <<mergeVars, serVars>>
    /\ pc = "new_end"
    /\ state.tag # "Init"
    /\ LET ns == IF state.tag = "Section" THEN CloseSection(notes, state)
                 ELSE notes
           release == [version |-> version[1], title |-> title, notes |-> ns]
       IN  releases' = IndexInsert(releases, release.version, release)
    /\ changelog' = changelog
    /\ state' = StateInit
    /\ version' = None
    /\ title' = None
    /\ notes' = <<>>
    /\ pos' = 0
    /\ pc' = "new_loop"
    /\ UNCHANGED <<raw, header, offset, foot_links, out>>

\* lines 171-185 with lines 45-49: Release::new returns Some((release, pos))
ReleaseSome ==
    /\ UNCHANGED <<mergeVars, serVars>>
    /\ pc = "new_end"
    /\ state.tag # "Init"
    /\ LET ns == IF state.tag = "Section" THEN CloseSection(notes, state)
                 ELSE notes
           release == [version |-> version[1], title |-> title, notes |-> ns]
       IN  releases' = IndexInsert(releases, release.version, release)
    /\ changelog' = Slice(changelog, pos, Len(changelog))
    /\ state' = StateInit
    /\ version' = None
    /\ title' = None
    /\ notes' = <<>>
    /\ pos' = 0
    /\ pc' = "new_loop"
    /\ UNCHANGED <<raw, header, offset, foot_links, out>>

\* line 172 with lines 45, 51-61: Release::new returns None, parse returns
ReleaseNone ==
    /\ UNCHANGED <<mergeVars, serVars>>
    /\ pc = "new_end"
    /\ state.tag = "Init"
    /\ pc' = "parsed"
    /\ UNCHANGED <<raw, header, changelog, offset, foot_links, releases,
                   state, version, title, notes, pos, out>>

\* the caller of both: the parsed document is written back with the default
\* serializer options
Serialize ==
    /\ UNCHANGED <<mergeVars, serVars>>
    /\ pc = "parsed"
    /\ out' = serialize_changelog(ChangeLogOfParsed(header, releases, foot_links),
                                  DefaultSerOption)
    /\ pc' = "done"
    /\ UNCHANGED <<raw, header, changelog, offset, foot_links, releases,
                   state, version, title, notes, pos>>

NextParse ==
    \/ ParseFind
    \/ FooterTake
    \/ FooterBreak
    \/ ReleaseLine
    \/ ReleaseLinesEnd
    \/ ReleaseSome
    \/ ReleaseNone
    \/ Serialize

SpecParse == InitParse /\ [][NextParse]_vars

----------------------------------------------------------------------------
(* gen_release_notes.                                                      *)

InitMerge ==
    /\ SerIdle
    /\ mode \in {"milestone", "tags", "single"}
    /\ options \in Options
    /\ unreleased \in Unreleaseds
    /\ gpc = "start"
    /\ ret = "none"
    /\ last_prs = "unset"
    /\ provider = "unused"
    /\ count = 0
    /\ logged = <<>>
    /\ last = None
    /\ prev = unreleased
    /\ entry = unreleased
    /\ inserted = <<>>
    /\ raw = <<>>
    /\ pc = "idle"
    /\ header = <<>>
    /\ changelog = <<>>
    /\ offset = 0
    /\ foot_links = <<>>
    /\ releases = <<>>
    /\ state = StateInit
    /\ version = None
    /\ title = None
    /\ notes = <<>>
    /\ pos = 0
    /\ out = <<>>

\* mutant of TakeCommit: the classified note is inserted before the
\* enrichment, so a commit failing for its missing PR leaves its note behind
TakeCommit_partial(raw_commit, related_pr, batch) ==
    LET res == get_release_note(raw_commit, related_pr, options)
        c   == Classify(raw_commit, options)
    IN  /\ unreleased' =
               IF res.kind = "some"
               THEN insert_release_note(unreleased, res.section_title, res.release_note)
               ELSE IF res.kind = "err" /\ c.err = ""
               THEN insert_release_note(unreleased, c.commit.section,
                                        [scope |-> c.commit.scope,
                                         message |-> c.commit.message,
                                         context |-> <<>>])
               ELSE unreleased
        /\ logged' = IF batch /\ res.kind = "err" THEN Append(logged, res.err)
                     ELSE logged
        /\ last' = Some([commit |-> raw_commit, related_pr |-> related_pr, res |-> res])
        /\ prev' = unreleased
        /\ count' = count + 1
        /\ inserted' = IF res.kind = "some"
                       THEN Append(inserted, [section_title |-> res.section_title,
                                              release_note |-> res.release_note])
                       ELSE inserted

\* lines 41-47, 75-81, 101-110: get_release_note on one commit, and the
\* insertion of its note; in a batch an error is logged, not returned
TakeCommit(raw_commit, related_pr, batch) ==
    LET res == get_release_note(raw_commit, related_pr, options)
    IN  /\ unreleased' = IF res.kind = "some"
                         THEN insert_release_note(unreleased, res.section_title,
                                                  res.release_note)
                         ELSE unreleased
        /\ logged' = IF batch /\ res.kind = "err" THEN Append(logged, res.err)
                     ELSE logged
        /\ last' = Some([commit |-> raw_commit, related_pr |-> related_pr, res |-> res])
        /\ prev' = unreleased
        /\ count' = count + 1
        /\ inserted' = IF res.kind = "some"
                       THEN Append(inserted, [section_title |-> res.section_title,
                                              release_note |-> res.release_note])
                       ELSE inserted

\* lines 30-33: the milestone case; try_get_repo(..).unwrap() panics without a
\* repository, and the ? returns the provider's error
MilestoneStart ==
    /\ gpc = "start"
    /\ mode = "milestone"
    /\ \E outcome \in {"norepo", "err", "ok"} :
          /\ provider' = outcome
          /\ gpc' = CASE outcome = "norepo" -> "panicked"
                      [] outcome = "err" -> "returned"
                      [] OTHER -> "milestone_loop"
          /\ ret' = IF outcome = "err" THEN "Err" ELSE ret
    /\ UNCHANGED <<mode, options, unreleased, last_prs, count, logged, last, prev,
                   entry, inserted>>
    /\ UNCHANGED <<parseVars, serVars>>

\* lines 33-48: one pull request of the milestone
MilestoneStep ==
    /\ gpc = "milestone_loop"
    /\ count < MaxCommits
    /\ \E c \in Commits :
          TakeCommit([c EXCEPT !.sha = "", !.list_files = {}], Some(Pr), TRUE)
    /\ UNCHANGED <<mode, options, gpc, ret, last_prs, provider, entry>>
    /\ UNCHANGED <<parseVars, serVars>>

\* lines 54-65: the tag range; a failing provider leaves last_prs None
TagsStart ==
    /\ gpc = "start"
    /\ mode = "tags"
    /\ \E outcome \in {"norepo", "err", "ok"} :
          /\ provider' = outcome
          /\ last_prs' = IF outcome = "ok" THEN "some" ELSE "none"
    /\ gpc' = "tags_loop"
    /\ UNCHANGED <<mode, options, unreleased, ret, count, logged, last, prev,
                   entry, inserted>>
    /\ UNCHANGED <<parseVars, serVars>>

\* lines 67-82: one commit of the tag range
TagsStep ==
    /\ gpc = "tags_loop"
    /\ count < MaxCommits
    /\ \E c \in Commits :
          \E related_pr \in IF last_prs = "some" THEN {None, Some(Pr)} ELSE {None} :
              TakeCommit(c, related_pr, TRUE)
    /\ UNCHANGED <<mode, options, gpc, ret, last_prs, provider, entry>>
    /\ UNCHANGED <<parseVars, serVars>>

\* lines 50, 84: the loop is over, return Ok(())
BatchEnd ==
    /\ gpc \in {"milestone_loop", "tags_loop"}
    /\ ret' = "Ok"
    /\ gpc' = "returned"
    /\ UNCHANGED <<mode, options, unreleased, last_prs, provider, count, logged,
                   last, prev, entry, inserted>>
    /\ UNCHANGED <<parseVars, serVars>>

\* lines 87-112: the last commit of the working tree; the ? of line 102
\* returns the error of get_release_note
Single ==
    /\ gpc = "start"
    /\ mode = "single"
    /\ \E c \in Commits : \E outcome \in {"norepo", "err", "ok_none", "ok_some"} :
          /\ provider' = outcome
          /\ TakeCommit(c, IF outcome = "ok_some" THEN Some(Pr) ELSE None, FALSE)
          /\ ret' = IF get_release_note(
                          c, IF outcome = "ok_some" THEN Some(Pr) ELSE None,
                          options).kind = "err"
                    THEN "Err" ELSE "Ok"
    /\ gpc' = "returned"
    /\ UNCHANGED <<mode, options, last_prs, entry>>
    /\ UNCHANGED <<parseVars, serVars>>

\* get_release_note on its own: any commit, with or without a related PR
InitNote ==
    /\ InitMerge
    /\ mode = "single"
    /\ unreleased = ReleaseWith(<<>>)

GetReleaseNote ==
    /\ gpc = "start"
    /\ \E c \in AllCommits : \E related_pr \in {None, Some(Pr)} :
          last' = Some([commit |-> c, related_pr |-> related_pr,
                        res |-> get_release_note(c, related_pr, options)])
    /\ gpc' = "called"
    /\ UNCHANGED <<mode, options, unreleased, ret, last_prs, provider, count,
                   logged, prev, entry, inserted>>
    /\ UNCHANGED <<parseVars, serVars>>

SpecNote == InitNote /\ [][GetReleaseNote]_vars

NextMerge ==
    \/ MilestoneStart
    \/ MilestoneStep
    \/ TagsStart
    \/ TagsStep
    \/ BatchEnd
    \/ Single

SpecMerge == InitMerge /\ [][NextMerge]_vars

----------------------------------------------------------------------------
(* Properties of the parser and of the round trip.                         *)

Returned == pc \in {"parsed", "done"}

\* a line of the shape  [label]: url
IsFooterLinkLine(line) ==
    \E j \in 2..(Len(line) - 1) :
        line[j] = "]" /\ line[j + 1] = ":" /\ \E i \in 1..(j - 1) : line[i] = "["

\* a line holding a release heading  ## [version]
IsReleaseTitleLine(line) ==
    \E p \in 1..(Len(line) - 4) :
        /\ Sub(line, p, p + 3) = <<"#", "#", " ", "[">>
        /\ \E q \in (p + 4)..Len(line) : line[q] = "]"

\* a line holding a section heading  ### title  and no release heading
IsSectionTitleLine(line) ==
    /\ \E p \in 1..(Len(line) - 3) : Sub(line, p, p + 3) = <<"#", "#", "#", " ">>
    /\ ~IsReleaseTitleLine(line)

HasMarker == Contains(raw, UnreleasedMarker)

\* the text the footer scan and the release parsing work on
FromMarker == Slice(raw, Find(raw, UnreleasedMarker)[1], Len(raw))

\* the number of lines of the maximal run of footer-link lines ending ls
TrailingRun(ls) ==
    CHOOSE n \in 0..Len(ls) :
        /\ \A i \in (Len(ls) - n + 1)..Len(ls) : IsFooterLinkLine(ls[i])
        /\ n < Len(ls) => ~IsFooterLinkLine(ls[Len(ls) - n])

\* the non-blank lines of a text, trimmed: the text modulo whitespace
NonBlankLines(t) ==
    LET ls == SplitInclusive(t)
    IN  SelectSeq([i \in 1..Len(ls) |-> Trim(ls[i])], LAMBDA l : l # <<>>)

\* A well-formed changelog: prose, the Unreleased heading, then releases made
\* of section headings each followed by its notes, then the footer links;
\* no version twice, no section title twice in a release.
WellFormed(t) ==
    LET ls == NonBlankLines(t)
        n  == Len(ls)
        Sections == {LineSectionA, LineSectionB}
        Foots == {LineFootR, LineFootS}
    IN  /\ \E u \in 1..n :
              /\ ls[u] = LineUnreleased
              /\ \A i \in 1..(u - 1) : ls[i] = LineNote
              /\ \A i \in (u + 1)..n :
                    ls[i] \in {LineRelease, LineNote} \cup Sections \cup Foots
              /\ \A i \in (u + 1)..n :
                    ls[i] = LineNote =>
                        \E j \in (u + 1)..(i - 1) :
                            /\ ls[j] \in Sections
                            /\ \A k \in (j + 1)..(i - 1) : ls[k] = LineNote
        /\ \A i, j \in 1..n : i < j /\ ls[i] = LineRelease => ls[j] # LineRelease
        /\ \A i, j \in 1..n :
              i < j /\ ls[i] \in Sections /\ ls[i] = ls[j] =>
                  \E k \in (i + 1)..(j - 1) : ls[k] = LineRelease
        /\ \A i, j \in 1..n : i < j /\ ls[i] \in Foots => ls[j] \in Foots

\* C1: serialising the parsed document of a well-formed text with the default
\* options (empty section order, no commit merged) gives the text back modulo
\* whitespace: the same header, release headings, section titles, section
\* bodies and footer links, each in the same order.
C1_RoundTrip ==
    pc = "done" /\ WellFormed(raw) => NonBlankLines(out) = NonBlankLines(raw)

\* C2: after parse, foot_links[i] is the link of the i-th line (top to bottom)
\* of the trailing block of footer-link lines.
C2_FooterLinksForward ==
    Returned =>
        LET ls == SplitInclusive(FromMarker)
            N  == TrailingRun(ls)
        IN  /\ Len(foot_links) = N
            /\ \A i \in 1..N : foot_links[i] = FootLink(ls[Len(ls) - N + i])

\* C3: the footer scan takes exactly the maximal run of footer-link lines that
\* ends the text: each of its N lines becomes one footer link, and the text
\* given to release parsing is the (trimmed) text of all the lines above it,
\* the line that closed the block and any footer-shaped line above it included.
C3_FooterBlockMaximal ==
    pc \in {"new_loop", "new_end", "parsed", "done"} =>
        LET ls  == SplitInclusive(FromMarker)
            N   == TrailingRun(ls)
            run == [i \in 1..N |-> ls[Len(ls) - N + i]]
        IN  /\ Len(foot_links) = N
            /\ \A i \in 1..N :
                  Cardinality({k \in 1..N : foot_links[k] = FootLink(run[i])})
                      = Cardinality({k \in 1..N : FootLink(run[k]) = FootLink(run[i])})
            /\ offset = Len(Concat(run))
            /\ releases = <<>> /\ pc = "new_loop" /\ pos = 0 =>
                  changelog = Trim(Concat(SubSeq(ls, 1, Len(ls) - N)))

\* C3 witness: a block of two footer links is taken, below a line that is no
\* footer link, below a footer-shaped line that stays in the text.
C3_Witness ==
    /\ pc = "new_loop" /\ releases = <<>> /\ pos = 0
    /\ Len(foot_links) = 2
    /\ LET ls == SplitInclusive(FromMarker)
       IN  \E i, j \in 1..Len(ls) :
              /\ i < j /\ j < Len(ls) - 1
              /\ IsFooterLinkLine(ls[i]) /\ ~IsFooterLinkLine(ls[j])
              /\ Contains(changelog, Trim(ls[i]))

\* C4: parse returns no document for a text without the Unreleased marker, and
\* every document it returns has the release "Unreleased" first, with the
\* (trimmed) text before the marker as header.
C4_UnreleasedFirst ==
    Returned =>
        /\ HasMarker
        /\ releases # <<>>
        /\ releases[1].k = SubSeq(UnreleasedMarker, 5, 14)
        /\ releases[1].v.version = SubSeq(UnreleasedMarker, 5, 14)
        /\ header = Trim(Slice(raw, 0, Find(raw, UnreleasedMarker)[1]))

\* C5: parse returns no document when a section-title line comes before any
\* release-title line of the input.
C5_SectionBeforeTitleFails ==
    LET ls == SplitInclusive(raw)
    IN  (\E i \in 1..Len(ls) :
            /\ IsSectionTitleLine(ls[i])
            /\ \A j \in 1..(i - 1) : ~IsReleaseTitleLine(ls[j]))
        => ~Returned

----------------------------------------------------------------------------
(* Properties of the note merge.                                           *)

Taken == last # None
LastCommit == last[1].commit
LastPr == last[1].related_pr
LastRes == last[1].res
Batch == mode \in {"milestone", "tags"}

\* C6: a note for a title that is not yet a key of note_sections makes a new
\* last section holding exactly that note; a note for a present title becomes
\* the last note of its section, and no section moves.
C6_InsertCreatesLastOrAppends ==
    Taken /\ LastRes.kind = "some" =>
        LET t      == LastRes.section_title
            n      == LastRes.release_note
            before == prev.note_sections
            after  == unreleased.note_sections
        IN  IF \A i \in 1..Len(before) : before[i].k # t
            THEN after = Append(before, [k |-> t, v |-> [title |-> t, notes |-> <<n>>]])
            ELSE /\ Len(after) = Len(before)
                 /\ \A i \in 1..Len(before) :
                       IF before[i].k = t
                       THEN after[i] = [before[i] EXCEPT !.v.notes = Append(@, n)]
                       ELSE after[i] = before[i]

\* C6 witness: a first note made "Unidentified" the third and last section,
\* then a second note went to the first section, which kept its place.
C6_Witness ==
    /\ Taken /\ LastRes.kind = "some" /\ count = 2
    /\ Len(prev.note_sections) = 3
    /\ prev.note_sections[3] =
           [k |-> Unidentified,
            v |-> [title |-> Unidentified, notes |-> prev.note_sections[3].v.notes]]
    /\ Len(prev.note_sections[3].v.notes) = 1
    /\ LastRes.section_title = prev.note_sections[1].k
    /\ Len(unreleased.note_sections) = 3
    /\ Len(unreleased.note_sections[1].v.notes) = 2

ShouldSkip(c, path) ==
    \/ path \in c.list_files
    \/ \E m \in SkipMarkers : Contains(c.message, m) \/ Contains(c.desc, m)

\* C7: get_release_note gives none exactly for the commits that change the
\* changelog or carry a marker in the message or the description, whatever
\* the options; "fix: something !log" is skipped, "fix: something log" is not.
C7_SkippedIffMarked ==
    Taken =>
        /\ LastRes.kind = "none" <=> ShouldSkip(LastCommit, options.changelog_path)
        /\ LastCommit.message = MsgBangLog => LastRes.kind = "none"
        /\ (/\ LastCommit.message = MsgLog
            /\ LastCommit.desc = <<>>
            /\ options.changelog_path \notin LastCommit.list_files)
           => LastRes.kind # "none"

\* C7 witness: a marked commit the classifier rejects, without a PR, is
\* skipped under strict parsing, exclude_unidentified and exclude_not_pr.
C7_Witness ==
    /\ Taken /\ LastRes.kind = "none"
    /\ LastCommit.parsed = None /\ LastCommit.found = None /\ LastPr = None
    /\ options.parsing = "Strict"
    /\ options.exclude_unidentified /\ options.exclude_not_pr

\* the commit goes through classification and its enrichment cannot fail
Classifies ==
    /\ Taken
    /\ ~ShouldSkip(LastCommit, options.changelog_path)
    /\ LastPr # None \/ ~options.exclude_not_pr

IsPrefix(a, b) == Len(a) <= Len(b) /\ SubSeq(b, 1, Len(a)) = a

\* C8: the classification table.
C8_ClassificationTable ==
    Classifies =>
        LET ok     == LastCommit.parsed # None
            mapped == ok /\ map_section(LastCommit.parsed[1].section) # None
            strict == options.parsing = "Strict"
            hit    == LastCommit.found # None
            note   == LastRes.release_note
            Titled(t) == LastRes.kind = "some" /\ LastRes.section_title = t
        IN  /\ mapped =>
                  /\ Titled(map_section(LastCommit.parsed[1].section)[1])
                  /\ note.scope = LastCommit.parsed[1].scope
                  /\ IsPrefix(LastCommit.parsed[1].message, note.message)
            /\ ok /\ ~mapped /\ strict =>
                  LastRes.kind = "err" /\ LastRes.err = "UnmappedSection"
            /\ ~ok /\ strict =>
                  LastRes.kind = "err" /\ LastRes.err = "InvalidCommitSyntax"
            /\ ~mapped /\ ~strict /\ hit => Titled(LastCommit.found[1])
            /\ ~mapped /\ ~strict /\ ~hit /\ options.exclude_unidentified =>
                  LastRes.kind = "err" /\ LastRes.err = "UnidentifiedCommit"
            /\ ~mapped /\ ~strict /\ ~hit /\ ~options.exclude_unidentified =>
                  Titled(Unidentified)
            /\ ok /\ ~mapped /\ LastRes.kind = "some" =>
                  /\ note.scope = LastCommit.parsed[1].scope
                  /\ IsPrefix(LastCommit.parsed[1].message, note.message)
            /\ ~ok /\ LastRes.kind = "some" =>
                  /\ note.scope = None
                  /\ IsPrefix(LastCommit.message, note.message)
                  /\ LastPr = None => note.message = LastCommit.message

\* C8 witness: the classifier fails, parsing is not strict, the search misses
\* and unidentified commits are kept: title "Unidentified", no scope, the raw
\* message.
C8_Witness ==
    /\ Classifies
    /\ LastCommit.parsed = None /\ LastCommit.found = None /\ LastPr = None
    /\ options.parsing # "Strict" /\ ~options.exclude_unidentified
    /\ LastRes.kind = "some" /\ LastRes.section_title = Unidentified
    /\ LastRes.release_note.scope = None
    /\ LastRes.release_note.message = LastCommit.message

\* the reference and the credit of the pull request Pr
PrReference == <<" ", "i", "n", " ", "[", "#", "7", "]", "(", "u", ")">>
AuthorCredit == <<" ", "b", "y", " ", "[", "@", "b", "o", "b", "]", "(", "l", ")">>

\* C9: with a related PR the message is the classified message, then the PR
\* reference unless omit_pr_link, then the credit unless omit_thanks; without
\* one it is unchanged, or the commit fails with NoUpstreamPr under
\* exclude_not_pr.
C9_Enrichment ==
    (/\ Taken
     /\ ~ShouldSkip(LastCommit, options.changelog_path)
     /\ Classify(LastCommit, options).err = "") =>
        LET m == Classify(LastCommit, options).commit.message
        IN  IF LastPr # None
            THEN /\ LastPr[1] = Pr
                 /\ LastRes.kind = "some"
                 /\ LastRes.release_note.message =
                        m \o (IF options.omit_pr_link THEN <<>> ELSE PrReference)
                          \o (IF options.omit_thanks THEN <<>> ELSE AuthorCredit)
            ELSE IF options.exclude_not_pr
            THEN LastRes.kind = "err" /\ LastRes.err = "NoUpstreamPr"
            ELSE LastRes.kind = "some" /\ LastRes.release_note.message = m

\* C9 witness: a classified commit with a PR, nothing suppressed: the message,
\* then the reference, then the credit.
C9_Witness ==
    /\ Taken /\ LastPr # None /\ LastRes.kind = "some"
    /\ ~options.omit_pr_link /\ ~options.omit_thanks
    /\ LastCommit.parsed # None
    /\ LastRes.release_note.message =
           LastCommit.parsed[1].message \o PrReference \o AuthorCredit

\* C10: a commit whose classification or enrichment fails leaves *unreleased
\* as it was; in a batch the error is logged, the loop goes on and
\* gen_release_notes returns Ok; for a single commit the error is returned.
C10_FailureIsolation ==
    /\ Taken /\ LastRes.kind = "err" => unreleased = prev
    /\ Batch /\ logged # <<>> =>
          /\ gpc \in {"milestone_loop", "tags_loop", "returned"}
          /\ ret # "Err"
          /\ gpc = "returned" => ret = "Ok"
    /\ Batch /\ Taken /\ LastRes.kind = "err" => logged # <<>>
    /\ mode = "single" /\ Taken =>
          /\ gpc = "returned"
          /\ logged = <<>>
          /\ ret = IF LastRes.kind = "err" THEN "Err" ELSE "Ok"

\* C10 witness: in a batch a first commit failed and was logged, the next one
\* got its note, and gen_release_notes returned Ok.
C10_Witness ==
    /\ Batch /\ count = 2 /\ Len(logged) = 1
    /\ LastRes.kind = "some" /\ unreleased # prev
    /\ gpc = "returned" /\ ret = "Ok"

----------------------------------------------------------------------------
(* Provider failures, batch order and the frame of the merge.               *)

\* the commit is neither skipped nor rejected by the classification
LastClassified ==
    /\ Taken
    /\ ~ShouldSkip(LastCommit, options.changelog_path)
    /\ Classify(LastCommit, options).err = ""

\* C11: a failing provider call is never fatal: gen_release_notes still
\* returns Ok (for a single commit: unless the classification itself
\* rejects the commit), and every commit that classifies gets its note
\* inserted, the message without reference and credit, whatever the policy.
C11_ProviderFailureNotFatal ==
    provider = "err" =>
        /\ gpc # "panicked"
        /\ (gpc = "returned" /\ (mode = "single" => ~(Taken /\ ~LastClassified
                                  /\ ~ShouldSkip(LastCommit, options.changelog_path))))
              => ret = "Ok"
        /\ LastClassified =>
              LET c == Classify(LastCommit, options).commit
              IN  /\ LastRes.kind = "some"
                  /\ LastRes.release_note.message = c.message
                  /\ unreleased = insert_release_note(prev, LastRes.section_title,
                                                      LastRes.release_note)

----------------------------------------------------------------------------
(* serialize_changelog on its own: a document of one or two releases, the   *)
(* first with up to three sections, and a section order that may name a     *)
(* title twice or name a title the release lacks.                           *)

Changed == <<"C", "h", "a", "n", "g", "e", "d">>

\* the notes of the section titled t: told apart by their messages
SerNote(t, i) == [scope |-> None, message |-> <<t[1], IF i = 1 THEN "1" ELSE "2">>,
                  context |-> <<>>]

SerSection(t) ==
    [k |-> t,
     v |-> [title |-> t,
            notes |-> IF t = Added THEN <<SerNote(t, 1), SerNote(t, 2)>>
                      ELSE <<SerNote(t, 1)>>]]

SerTitles == {Added, Fixed, Unidentified}

\* the IndexMaps over SerTitles: sequences of sections without repetition
SerSectionMaps ==
    { [i \in 1..Len(q) |-> SerSection(q[i])] :
        q \in { q \in UNION {[1..n -> SerTitles] : n \in 0..3} :
                  \A i, j \in 1..Len(q) : i # j => q[i] # q[j] } }

SerReleases ==
    { [title |-> [version |-> <<"U", "n", "r", "e", "l", "e", "a", "s", "e", "d">>,
                  title |-> None],
       header |-> h, note_sections |-> m, footer |-> None] :
        h \in {None, Some(<<"h">>)}, m \in SerSectionMaps }

SerOlder ==
    [title |-> [version |-> <<"1">>, title |-> Some(<<"d">>)],
     header |-> None, note_sections |-> <<SerSection(Changed)>>, footer |-> None]

SerDocs ==
    { [header |-> None,
       releases |-> <<[k |-> r.title.version, v |-> r]>> \o older,
       footer_links |-> <<>>] :
        r \in SerReleases, older \in {<<>>, <<[k |-> <<"1">>, v |-> SerOlder]>>} }

SectionOrders == UNION {[1..n -> {Added, Fixed, Changed}] : n \in 0..MaxOrder}

InitSer ==
    /\ ser_doc \in SerDocs
    /\ ser_option \in [section_order : SectionOrders, serialise_title : BOOLEAN]
    /\ ser_s = <<>>
    /\ spc = "start"
    /\ raw = <<>>
    /\ pc = "idle"
    /\ header = <<>>
    /\ changelog = <<>>
    /\ offset = 0
    /\ foot_links = <<>>
    /\ releases = <<>>
    /\ state = StateInit
    /\ version = None
    /\ title = None
    /\ notes = <<>>
    /\ pos = 0
    /\ out = <<>>
    /\ mode = "idle"
    /\ options = CHOOSE o \in Options : TRUE
    /\ unreleased = ReleaseWith(<<>>)
    /\ gpc = "idle"
    /\ ret = "none"
    /\ last_prs = "unset"
    /\ provider = "unused"
    /\ count = 0
    /\ logged = <<>>
    /\ last = None
    /\ prev = unreleased
    /\ entry = unreleased
    /\ inserted = <<>>

\* ser.rs lines 25-46: serialize_changelog(&changelog, &options); both are
\* borrowed immutably
SerializeChangelog ==
    /\ spc = "start"
    /\ ser_s' = serialize_changelog(ser_doc, [release_option |-> ser_option])
    /\ spc' = "done"
    /\ UNCHANGED <<ser_doc, ser_option>>
    /\ UNCHANGED <<parseVars, mergeVars>>

SpecSer == InitSer /\ [][SerializeChangelog]_vars

\* the section headings and the note lines of a text, in order of appearance
OutlineOf(text) ==
    LET ls == SplitInclusive(text)
    IN  SelectSeq([i \in 1..Len(ls) |-> Trim(ls[i])],
                  LAMBDA l : \/ Sub(l, 1, 4) = <<"#", "#", "#", " ">>
                             \/ Sub(l, 1, 2) = <<"-", " ">>)

\* the titles of a list, each at its first occurrence only
RECURSIVE FirstOccurrences(_, _)
FirstOccurrences(o, seen) ==
    IF o = <<>> THEN <<>>
    ELSE IF Head(o) \in seen THEN FirstOccurrences(Tail(o), seen)
    ELSE <<Head(o)>> \o FirstOccurrences(Tail(o), seen \cup {Head(o)})

\* the order the sections of a release are to be written in
ExpectedOrder(m, o) ==
    LET stored == Keys(m)
        listed == {o[i] : i \in 1..Len(o)}
    IN  SelectSeq(FirstOccurrences(o, {}),
                  LAMBDA t : \E i \in 1..Len(stored) : stored[i] = t)
        \o SelectSeq(stored, LAMBDA t : t \notin listed)

\* the heading and the note lines of the section titled t
ExpectedSection(m, t) ==
    LET sec == Get(m, t)[1]
    IN  << <<"#", "#", "#", " ">> \o t >>
        \o [i \in 1..Len(sec.notes) |-> <<"-", " ">> \o sec.notes[i].message]

ExpectedOutline(doc, o) ==
    Concat([r \in 1..Len(doc.releases) |->
        LET m  == doc.releases[r].v.note_sections
            eo == ExpectedOrder(m, o)
        IN  Concat([i \in 1..Len(eo) |-> ExpectedSection(m, eo[i])])])

\* C12: in the serialised text the sections named by section_order come
\* first, in that order, then the other sections in stored order; every
\* section is written exactly once, also when section_order names a title
\* twice or a title the release lacks, with its notes in stored order; with
\* an empty section_order the order is the stored one.
C12_SectionOrder ==
    spc = "done" =>
        /\ OutlineOf(ser_s) = ExpectedOutline(ser_doc, ser_option.section_order)
        /\ \A r \in 1..Len(ser_doc.releases) :
              LET m      == ser_doc.releases[r].v.note_sections
                  sorted == note_section_sorted(ser_doc.releases[r].v, ser_option)
              IN  /\ Len(sorted) = Len(m)
                  /\ \A i \in 1..Len(m) : \E j \in 1..Len(sorted) : sorted[j] = m[i].v
                  /\ ser_option.section_order = <<>> => sorted = Values(m)

\* C12 witness: section_order names "Fixed" twice, the release stores Added,
\* Fixed, Unidentified: the text has Fixed, then Added with its two notes,
\* then Unidentified.
C12_Witness ==
    /\ spc = "done"
    /\ ser_option.section_order = <<Fixed, Fixed>>
    /\ Len(ser_doc.releases) = 1
    /\ Keys(ser_doc.releases[1].v.note_sections) = <<Added, Fixed, Unidentified>>
    /\ OutlineOf(ser_s) =
          << <<"#", "#", "#", " ">> \o Fixed, <<"-", " ", "F", "1">>,
             <<"#", "#", "#", " ">> \o Added, <<"-", " ", "A", "1">>,
             <<"-", " ", "A", "2">>,
             <<"#", "#", "#", " ">> \o Unidentified, <<"-", " ", "U", "1">> >>

\* the notes of the section titled t in the IndexMap m, none if m lacks it
NotesIn(m, t) == IF Get(m, t) # None THEN Get(m, t)[1].notes ELSE <<>>

\* the notes the batch resolved to the title t, in the order of the commits
InsertedFor(t) ==
    LET hits == SelectSeq(inserted, LAMBDA e : e.section_title = t)
    IN  [i \in 1..Len(hits) |-> hits[i].release_note]

\* C13: commits are taken one at a time in the order supplied, so in every
\* section the notes of the batch follow the notes present at entry, in the
\* order of their commits, and the sections the batch created follow the
\* sections present at entry, in the order of the first commit of each title.
C13_BatchOrder ==
    Batch =>
        LET E == entry.note_sections
            U == unreleased.note_sections
            titles == [i \in 1..Len(inserted) |-> inserted[i].section_title]
        IN  /\ Len(inserted) <= count
            /\ Keys(U) = Keys(E)
                  \o SelectSeq(FirstOccurrences(titles, {}),
                               LAMBDA t : Get(E, t) = None)
            /\ \A i \in 1..Len(U) :
                  /\ U[i].v.title = U[i].k
                  /\ U[i].v.notes = NotesIn(E, U[i].k) \o InsertedFor(U[i].k)

\* C13 witness: a batch of two commits, both resolved to a section present
\* at entry, with different notes: the section holds its old note, then the
\* note of the first commit, then the note of the second; the batch returned.
C13_Witness ==
    /\ Batch /\ gpc = "returned" /\ Len(inserted) = 2
    /\ inserted[1].section_title = Added /\ inserted[2].section_title = Added
    /\ inserted[1].release_note # inserted[2].release_note
    /\ NotesIn(entry.note_sections, Added) = <<OldNote>>
    /\ NotesIn(unreleased.note_sections, Added) =
          <<OldNote, inserted[1].release_note, inserted[2].release_note>>

\* C14: merging touches only note_sections of *unreleased: after any run of
\* commits, inserted, skipped or failed, the version, title, header and
\* footer are those at entry, every section present at entry is still at
\* its place, and its notes at entry are a prefix of its notes.
C14_MergeFrame ==
    mode \in {"milestone", "tags", "single"} =>
        LET E == entry.note_sections
            U == unreleased.note_sections
        IN  /\ unreleased.title = entry.title
            /\ unreleased.header = entry.header
            /\ unreleased.footer = entry.footer
            /\ Len(E) <= Len(U)
            /\ \A i \in 1..Len(E) :
                  /\ U[i].k = E[i].k
                  /\ U[i].v.title = E[i].v.title
                  /\ IsPrefix(E[i].v.notes, U[i].v.notes)

\* C14 witness: a release with a header, a footer and two sections went
\* through a batch of one failed commit and one inserted commit.
C14_Witness ==
    /\ Batch /\ gpc = "returned" /\ count = 2
    /\ Len(logged) = 1 /\ Len(inserted) = 1
    /\ entry.header = Some(<<"h">>) /\ entry.footer = Some(<<"f">>)
    /\ Len(entry.note_sections) = 2
    /\ unreleased # entry
    /\ unreleased.header = Some(<<"h">>) /\ unreleased.footer = Some(<<"f">>)

----------------------------------------------------------------------------
(* The release loop of parse_change_log and Release::new.                   *)

\* Release::new is running or has returned for the last time
InReleases == pc \in {"new_loop", "new_end", "parsed", "done"}

\* the text the release loop starts from: the text from the marker on,
\* without the footer lines, trimmed
Body == Trim(Slice(FromMarker, 0, Len(FromMarker) - offset))

IsSuffix(a, b) == Len(a) <= Len(b) /\ SubSeq(b, Len(b) - Len(a) + 1, Len(b)) = a

\* the byte offset p is the start of a line of the text t, or its end
AtLineStart(t, p) == p = 0 \/ p = Len(t) \/ (p < Len(t) /\ t[p] = "\n")

\* the line of t that starts at the byte offset p
LineAt(t, p) == FirstLine(Slice(t, p, Len(t)))

\* C15: a release-title line met in state Title or Section is not consumed:
\* the lines a call has consumed hold one release-title line, the first; the
\* offset it returns is the start of the next release-title line or the
\* length of the text; every call starts on a release-title line or on empty
\* text; what remains is always a suffix of the text starting at a line
\* start, and nothing remains when the loop ends.
C15_TitleLineNotConsumed ==
    InReleases =>
        /\ IsSuffix(changelog, Body)
        /\ AtLineStart(Body, Len(Body) - Len(changelog))
        /\ pc = "new_loop" /\ pos = 0 =>
              /\ state.tag = "Init"
              /\ changelog = <<>> \/ RELEASE_TITLE_REGEX(LineAt(changelog, 0))
        /\ pc \in {"new_loop", "new_end"} /\ pos > 0 =>
              LET ls == SplitInclusive(Slice(changelog, 0, pos))
              IN  /\ state.tag # "Init"
                  /\ RELEASE_TITLE_REGEX(ls[1])
                  /\ \A i \in 2..Len(ls) : ~RELEASE_TITLE_REGEX(ls[i])
        /\ pc = "new_end" =>
              \/ pos = Len(changelog)
              \/ /\ pos < Len(changelog)
                 /\ AtLineStart(changelog, pos)
                 /\ RELEASE_TITLE_REGEX(LineAt(changelog, pos))
        /\ pc \in {"parsed", "done"} => changelog = <<>>

\* C15 witness: the second call of Release::new, in state Section, stopped
\* on a release-title line with text left.
C15_Witness ==
    /\ pc = "new_end" /\ state.tag = "Section"
    /\ Len(releases) = 1
    /\ 0 < pos /\ pos < Len(changelog)
    /\ RELEASE_TITLE_REGEX(LineAt(changelog, pos))

\* the lines the running call of Release::new has consumed
Consumed == SplitInclusive(Slice(changelog, 0, pos))

\* the i-th consumed line is a section heading (the first is the release's)
IsHead(ls, i) == i >= 2 /\ RELEASE_SECTION_TITLE_REGEX(ls[i])

HeadTitle(ls, i) == Trim(SubSeq(ls[i], 5, Len(ls[i])))

\* the index of the heading that follows the i-th line, Len(ls) + 1 if none
NextHead(ls, i) ==
    IF \E j \in (i + 1)..Len(ls) : IsHead(ls, j)
    THEN CHOOSE j \in (i + 1)..Len(ls) :
            IsHead(ls, j) /\ \A k \in (i + 1)..(j - 1) : ~IsHead(ls, k)
    ELSE Len(ls) + 1

\* the lines between the i-th line and the next heading, as one text
LinesAfter(ls, i) == Concat(SubSeq(ls, i + 1, NextHead(ls, i) - 1))

\* the index of the last heading among the lines, 0 if none
LastHead(ls) ==
    IF \E i \in 1..Len(ls) : IsHead(ls, i)
    THEN CHOOSE i \in 1..Len(ls) : IsHead(ls, i) /\ NextHead(ls, i) = Len(ls) + 1
    ELSE 0

\* the spans and the bodies stored while Release::new reads lines
SectionSpans ==
    pc \in {"new_loop", "new_end"} =>
        LET ls == Consumed
        IN  /\ state.tag = "Section" <=> LastHead(ls) # 0
            /\ state.tag = "Section" =>
                  /\ state.start <= state.end /\ state.end <= Len(changelog)
                  /\ state.end = pos
                  /\ state.title = HeadTitle(ls, LastHead(ls))
                  /\ Slice(changelog, state.start, state.end)
                        = LinesAfter(ls, LastHead(ls))
            \* a closed section: the last one of its title that a later
            \* heading or a release-title line has closed
            /\ \A i \in 1..Len(ls) :
                  (/\ IsHead(ls, i)
                   /\ \/ NextHead(ls, i) <= Len(ls)
                      \/ pc = "new_end" /\ pos < Len(changelog)
                   /\ \A j \in (i + 1)..Len(ls) :
                         IsHead(ls, j) /\ HeadTitle(ls, j) = HeadTitle(ls, i)
                            => /\ j = LastHead(ls)
                               /\ ~(pc = "new_end" /\ pos < Len(changelog)))
                  => Get(notes, HeadTitle(ls, i)) = Some(Trim(LinesAfter(ls, i)))
            /\ \A n \in 1..Len(notes) :
                  \E i \in 1..Len(ls) : IsHead(ls, i) /\ HeadTitle(ls, i) = notes[n].k

\* the section open when Release::new returns is stored with its lines
SectionClosedAtReturn ==
    (pc = "new_end" /\ pc' = "new_loop" /\ state.tag = "Section") =>
        LET ls == Consumed
            r  == Get(releases', version[1])
        IN  /\ r # None
            /\ Get(r[1].notes, state.title)
                  = Some(Trim(LinesAfter(ls, LastHead(ls))))

\* C16: in state Section, start <= end <= length of the text and end = pos
\* at the start of each line step; a closed section is stored with the
\* trimmed text of exactly the lines between its heading and the line (or
\* the end of text) that closed it.
C16_SectionSpan == [](SectionSpans) /\ [][SectionClosedAtReturn]_vars

\* C16 witness: a section with a body line was closed by the next section
\* heading, whose span is empty and starts after it.
C16_Witness ==
    /\ pc = "new_loop" /\ state.tag = "Section"
    /\ Len(notes) = 1 /\ notes[1].v = LineNote
    /\ state.title # notes[1].k
    /\ state.start = state.end /\ state.end = pos /\ pos = Len(changelog)

\* the i-th line of ls is read in state Title: it is neither a release title
\* nor a section heading, and the nearest such line before it is a release
\* title
ReadInTitle(ls, i) ==
    /\ ~RELEASE_TITLE_REGEX(ls[i]) /\ ~RELEASE_SECTION_TITLE_REGEX(ls[i])
    /\ \E j \in 1..(i - 1) :
          /\ RELEASE_TITLE_REGEX(ls[j])
          /\ \A k \in (j + 1)..(i - 1) :
                ~RELEASE_TITLE_REGEX(ls[k]) /\ ~RELEASE_SECTION_TITLE_REGEX(ls[k])

\* the parsed release r holds the text l in one of its fields
KeepsText(r, l) ==
    \/ r.title # None /\ Contains(r.title[1], l)
    \/ \E n \in 1..Len(r.notes) : Contains(r.notes[n].v, l)

\* C17: no line of a release is dropped: a non-blank line read in state
\* Title (after the release heading, before the first section heading) is
\* held by a release of the returned document.
C17_StrayLinesKept ==
    pc = "parsed" =>
        LET ls == SplitInclusive(Body)
        IN  \A i \in 1..Len(ls) :
                ReadInTitle(ls, i) /\ Trim(ls[i]) # <<>> =>
                    \E n \in 1..Len(releases) : KeepsText(releases[n].v, Trim(ls[i]))

\* the indices of the lines of ls that satisfy P, in order
Indices(ls, P(_)) == SelectSeq([i \in 1..Len(ls) |-> i], LAMBDA i : P(ls[i]))

\* the section headings of the lines a+1 .. b-1 with their bodies, in order
SectionsBetween(ls, a, b) ==
    LET part  == SubSeq(ls, a, b - 1)
        heads == SelectSeq([i \in 1..Len(part) |-> i], LAMBDA i : IsHead(part, i))
    IN  [n \in 1..Len(heads) |->
            [k |-> HeadTitle(part, heads[n]),
             v |-> Trim(LinesAfter(part, heads[n]))]]

\* the releases a text holds: one per release-title line, each with one
\* section per section heading up to the next release-title line
ReleasesOfText(t) ==
    LET ls == SplitInclusive(t)
        ts == Indices(ls, RELEASE_TITLE_REGEX)
    IN  [n \in 1..Len(ts) |->
            [k |-> ReleaseTitleCaptures(ls[ts[n]]).g1[1],
             v |-> [version |-> ReleaseTitleCaptures(ls[ts[n]]).g1[1],
                    title |-> ReleaseTitleCaptures(ls[ts[n]]).g2,
                    notes |-> SectionsBetween(
                                 ls, ts[n],
                                 IF n < Len(ts) THEN ts[n + 1] ELSE Len(ls) + 1)]]]

\* C18: the releases of the returned document are one per release-title
\* line, in document order, and the sections of each release one per section
\* heading, in order, each with its body, also when a version or a section
\* title occurs twice.
C18_OneEntryPerHeading ==
    pc = "parsed" => releases = ReleasesOfText(Body)

\* what Release::new is about to return: None on the empty text only, else
\* an offset in 1 .. length of the text
OffsetInRange ==
    pc = "new_end" =>
        IF state.tag = "Init"
        THEN changelog = <<>> /\ pos = 0
        ELSE 0 < pos /\ pos <= Len(changelog)

\* line 48: the remaining text gets shorter with each release
RemainderShrinks ==
    pc = "new_end" /\ pc' = "new_loop" => Len(changelog') < Len(changelog)

InLoop == pc \in {"new_loop", "new_end"}

\* a bound on the number of steps the release loop has left: the bytes not
\* yet read count four each, the position in the loop up to four
StepsLeft ==
    IF ~InLoop THEN 0
    ELSE 4 * (Len(changelog) - pos)
         + (CASE pc = "new_loop" /\ state.tag # "Init" -> 4
              [] pc = "new_end"  /\ state.tag # "Init" -> 3
              [] pc = "new_loop" /\ state.tag = "Init" -> 2
              [] pc = "new_end"  /\ state.tag = "Init" -> 1)

\* every step of the loop lowers the bound, which is positive inside the
\* loop and 0 outside
LoopProgress == InLoop => StepsLeft' < StepsLeft

BoundPositive == InLoop => StepsLeft > 0

\* C19: release parsing terminates: a call that returns a release returns an
\* offset greater than 0 and at most the length of the remaining text, the
\* remaining text gets strictly shorter, Release::new returns None on the
\* empty remainder, and every step of the loop brings its end nearer.
C19_ReleaseLoopTerminates ==
    /\ [](OffsetInRange /\ BoundPositive)
    /\ [][RemainderShrinks /\ LoopProgress]_vars

\* C19 witness: the loop ended after two releases.
C19_Witness ==
    /\ pc = "parsed" /\ Len(releases) = 2 /\ changelog = <<>>
    /\ state.tag = "Init"

\* the text after the first "### " of a line the section-title pattern
\* recognises
TextAfterHashes(line) ==
    LET p == Find(line, <<"#", "#", "#", " ">>)[1]
    IN  Trim(Slice(line, p + 4, Len(line)))

\* a step of Release::new that reads, in state Title or Section, a line the
\* section-title pattern recognises: it opens the section of that title and
\* the release goes on
SectionLineOpensSection ==
    (/\ pc = "new_loop" /\ NextLine # None
     /\ state.tag \in {"Title", "Section"}
     /\ RELEASE_SECTION_TITLE_REGEX(NextLine[1])) =>
        /\ pc' = "new_loop"
        /\ state'.tag = "Section"
        /\ state'.title = TextAfterHashes(NextLine[1])
        /\ state'.start = pos' /\ state'.end = pos'
        /\ releases' = releases

\* no release of the returned document comes from a section-title line
NoReleaseFromSectionLine ==
    pc = "parsed" =>
        LET ls == SplitInclusive(Body)
        IN  Len(releases) <= Cardinality(
                {i \in 1..Len(ls) : /\ RELEASE_TITLE_REGEX(ls[i])
                                    /\ ~RELEASE_SECTION_TITLE_REGEX(ls[i])})

\* C20: a line the section-title pattern recognises ("### Added",
\* "### [Added]"), read in state Title or Section, opens a new section titled
\* by the text after "### "; it neither ends the release nor starts a new
\* one, also when the release-title pattern matches it too.
C20_SectionLineOpensSection ==
    /\ [][SectionLineOpensSection]_vars
    /\ [](NoReleaseFromSectionLine)

----------------------------------------------------------------------------
(* serialize_changelog and the serialise_title option.                      *)

\* the release heading lines of a text, in order of appearance
HeadingsOf(text) ==
    LET ls == SplitInclusive(text)
    IN  SelectSeq([i \in 1..Len(ls) |-> Trim(ls[i])],
                  LAMBDA l : Sub(l, 1, 4) = <<"#", "#", " ", "[">>)

\* the heading line of a release
HeadingLine(r) ==
    <<"#", "#", " ", "[">> \o r.title.version \o <<"]">>
    \o (IF r.title.title # None THEN <<" ", "-", " ">> \o r.title.title[1] ELSE <<>>)

\* the text written for the document under serialise_title = b, all else
\* as in ser_option
TextUnder(b) ==
    serialize_changelog(ser_doc,
        [release_option |-> [ser_option EXCEPT !.serialise_title = b]])

\* the text is a function of the document and section_order alone, and it
\* holds the heading line of every release
SerialiseTitleIgnored ==
    spc = "done" =>
        /\ ser_s = TextUnder(TRUE)
        /\ ser_s = TextUnder(FALSE)
        /\ HeadingsOf(ser_s)
              = [i \in 1..Len(ser_doc.releases) |-> HeadingLine(ser_doc.releases[i].v)]

\* the document and the options are only read
SerReadOnly == ser_doc' = ser_doc /\ ser_option' = ser_option

\* C21: serialize_changelog is deterministic and read-only, and its text
\* does not depend on serialise_title: the runs with serialise_title true
\* and false give the same text, the heading line of every release is
\* written, and the document is unchanged afterwards.
C21_SerialiseTitleIgnored == [](SerialiseTitleIgnored) /\ [][SerReadOnly]_vars

\* C21 witness: a document of two releases, the first with sections, was
\* written with serialise_title = false, headings included.
C21_Witness ==
    /\ spc = "done" /\ ~ser_option.serialise_title
    /\ Len(ser_doc.releases) = 2
    /\ Len(ser_doc.releases[1].v.note_sections) = 2
    /\ Len(HeadingsOf(ser_s)) = 2
    /\ ser_doc \in SerDocs

====
